---- MODULE Spec2Model ----
(***************************************************************************)
(* Model of the SmartSim scaling-test drivers.                             *)
(*                                                                         *)
(*   src/driver.py                SmartSimScalingTests.inference_standard, *)
(*                                inference_colocated, throughput_scaling  *)
(*   src/cpp-throughput/driver.py SlurmScalingTests.throughput             *)
(*                                                                         *)
(* One behaviour is one call of one sweep function.  The driver is a       *)
(* single sequential thread; pc is its position.  The only other actor is  *)
(* the workload manager, which takes a running job to a terminal status.   *)
(* Experiment.start blocks (block=True is its default) until the job it    *)
(* launched is terminal; for a database it returns once the database runs. *)
(*                                                                         *)
(* Further specifications over the same variables:                         *)
(*   SpecAgg    process_scaling_results over a scaling directory           *)
(*   SpecNames  the names the create_*_session functions give their runs   *)
(*   SpecDeploy throughput_scaling with a database that may fail to start  *)
(*   SpecPlot   src/throughput-plotter.py reading the run directories      *)
(***************************************************************************)
EXTENDS Integers, Sequences, FiniteSets, TLC

\* ---------------------------------------------------------------- bounds
\* longest list of candidate values of one axis
MaxAxisLen == 2
\* most runs (tuples of the cartesian product) of one sweep
MaxRuns == 4

\* ------------------------------------------------------------- constants
STATUS_COMPLETED == "Completed"
STATUS_FAILED == "Failed"
STATUS_CANCELLED == "Cancelled"
STATUS_NEW == "New"
STATUS_RUNNING == "Running"
\* the statuses a job never leaves
TerminalStatuses == {STATUS_COMPLETED, STATUS_FAILED, STATUS_CANCELLED}

\* iterations=100 of throughput_scaling
iterations == 100
\* db_cpus=36 of throughput_scaling
db_cpus == 36

\* the four sweep functions
Sweeps == {"inference_standard", "inference_colocated", "throughput_scaling", "throughput"}

\* the axes of each sweep, in the order they are handed to product()
ProductAxes(s) ==
  CASE s = "inference_standard" ->
         <<"client_nodes", "clients_per_node", "db_nodes", "db_cpus", "db_tpq", "batch_size">>
    [] s = "inference_colocated" ->
         <<"nodes", "clients_per_node", "db_cpus", "db_tpq", "batch_size", "pin_app_cpus">>
    [] s = "throughput_scaling" ->
         <<"client_nodes", "clients_per_node", "tensor_bytes">>
    [] s = "throughput" ->
         <<"client_nodes", "clients_per_node", "db_nodes", "tensor_bytes">>

\* the axis of the outer loop of throughput_scaling (no other sweep has one)
GroupAxes(s) == IF s = "throughput_scaling" THEN <<"db_nodes">> ELSE <<>>

\* every swept axis of a sweep, outermost first
SweptAxes(s) == GroupAxes(s) \o ProductAxes(s)

Range(f) == {f[i] : i \in DOMAIN f}

\* ---------------------------------------------------------------- inputs
\* candidate values of an axis (node counts, sizes, flags): 1 is a single
\* database node, 2 a clustered database (db_nodes > 1)
Vals == {1, 2}
\* value lists an axis may be given: every list of up to MaxAxisLen values
AxisLists == UNION {[1..n -> Vals] : n \in 0..MaxAxisLen}
\* the list an axis has unless the caller varies it
DefaultList == <<1>>
\* axis sets in which at most two axes are varied
AxesFamily(s) ==
  {[n \in Range(SweptAxes(s)) |->
      IF n = a THEN la ELSE IF n = b THEN lb ELSE DefaultList] :
        a \in Range(SweptAxes(s)), b \in Range(SweptAxes(s)),
        la \in AxisLists, lb \in AxisLists}

RECURSIVE LenProduct(_, _)
\* product of the lengths of the lists ax[names[1]], ax[names[2]], ...
LenProduct(ax, names) ==
  IF names = <<>> THEN 1 ELSE Len(ax[Head(names)]) * LenProduct(ax, Tail(names))

\* ----------------------------------------------------------------- state
VARIABLES
  sweep,          \* the sweep function being run
  axes,           \* axis name -> list of candidate values (the arguments)
  pc,             \* position of the driver in the sweep function
  perms,          \* perms = list(product(...))
  gi,             \* index of the outer loop of throughput_scaling (0: none)
  pi,             \* index of the current element of perms
  dbs,            \* the database deployments created so far, in order
  jobs,           \* the models (client / post-processing jobs) created so far
  errors,         \* logger.error lines: indices (in jobs) of the runs reported
  allocation,     \* slurm allocation of the client program: none, held or released
  data_locations, \* cpp-throughput: indices of the runs to aggregate
  result,         \* how the call ended: running / returned / the exception raised
  devcfg,         \* the arguments device and num_devices
  final_csv,      \* cpp-throughput: whether the CSV was written at the end, and its runs
  clock,          \* history: number of driver and launcher events so far
  agg,            \* process_scaling_results: the scaling directory and the call's locals
  sessions,       \* run naming: the sessions created in one experiment directory
  plot            \* throughput-plotter.py: the directory it reads and its tables

vars == <<sweep, axes, pc, perms, gi, pi, dbs, jobs, errors, allocation,
          data_locations, result, devcfg, final_csv, clock, agg, sessions, plot>>

\* the state a sweep function leaves alone
outside == <<agg, sessions, plot>>

\* ------------------------------------------------------- itertools.product
\* [x + [y] for y in pool], for one x
ExpandOne(x, pool) == [i \in 1..Len(pool) |-> Append(x, pool[i])]

RECURSIVE ExpandSwapped(_, _)
\* the comprehension with its loops exchanged: for y in pool for x in result
ExpandSwapped(res, pool) ==
  IF pool = <<>> THEN <<>>
  ELSE [i \in 1..Len(res) |-> Append(res[i], Head(pool))] \o ExpandSwapped(res, Tail(pool))

RECURSIVE Expand(_, _)
\* result = [x + [y] for x in result for y in pool]
Expand(res, pool) ==
  IF res = <<>> THEN <<>>
  ELSE ExpandOne(Head(res), pool) \o Expand(Tail(res), pool)

RECURSIVE ProductFrom(_, _)
ProductFrom(res, pools) ==
  IF pools = <<>> THEN res ELSE ProductFrom(Expand(res, Head(pools)), Tail(pools))

\* list(product(*pools))
Product(pools) == ProductFrom(<< <<>> >>, pools)

\* the argument lists of the product() call of sweep s
Pools(s, ax) == [i \in 1..Len(ProductAxes(s)) |-> ax[ProductAxes(s)[i]]]

\* no final CSV has been written
NoFinalCsv == [written |-> FALSE, rows |-> <<>>]

\* ------------------------------------------------------------------ Init
\* device="GPU", num_devices=1 unless the caller says otherwise
DefaultDevice == [device |-> "GPU", num_devices |-> 1]
\* the other device configurations tried: they reach the other branches of setup_resnet
OtherDevices == {[device |-> "GPU", num_devices |-> 2], [device |-> "CPU", num_devices |-> 0]}

Init ==
  /\ sweep \in Sweeps
  /\ axes \in AxesFamily(sweep)
  /\ LenProduct(axes, SweptAxes(sweep)) <= MaxRuns
  /\ devcfg \in {DefaultDevice} \cup
       (IF sweep = "inference_standard" /\ \A n \in DOMAIN axes : Len(axes[n]) = 1
        THEN OtherDevices ELSE {})
  /\ pc = "begin"
  /\ perms = <<>>
  /\ gi = 0
  /\ pi = 0
  /\ dbs = <<>>
  /\ jobs = <<>>
  /\ errors = <<>>
  /\ allocation = [state |-> "none", nodes |-> 0, releases |-> 0]
  /\ data_locations = <<>>
  /\ result = "running"
  /\ final_csv = NoFinalCsv
  /\ clock = 0
  /\ agg = [pc |-> "idle"]
  /\ sessions = <<>>
  /\ plot = [pc |-> "idle"]

\* --------------------------------------------------------------- helpers
\* the deployment the local variable db refers to, and the newest model
db == Len(dbs)
session == Len(jobs)

\* value of axis name in the tuple perm of sweep s
AxisValue(s, perm, name) ==
  perm[CHOOSE i \in 1..Len(ProductAxes(s)) : ProductAxes(s)[i] = name]

\* a start that returns with the database still queued
start_database_queued(nodes) ==
  /\ dbs' = Append(dbs, [nodes |-> nodes, status |-> STATUS_NEW,
                         gi |-> gi, pi |-> pi, models |-> 0,
                         started |-> 0, used |-> 0, stopped |-> 0, stops |-> 0])
  /\ clock' = clock + 1

\* start_database(...): create the Orchestrator and exp.start(db), which
\* returns once the database is running
start_database(nodes) ==
  /\ dbs' = Append(dbs, [nodes |-> nodes, status |-> STATUS_RUNNING,
                         gi |-> gi, pi |-> pi, models |-> 0,
                         started |-> clock + 1, used |-> 0, stopped |-> 0, stops |-> 0])
  /\ clock' = clock + 1

\* a stop that is recorded but leaves the database running
stop_database_lost(d) ==
  /\ dbs' = [dbs EXCEPT ![d].stopped = clock + 1, ![d].stops = @ + 1]
  /\ clock' = clock + 1

\* exp.stop(db)
stop_database(d) ==
  /\ dbs' = [dbs EXCEPT ![d].status = "Stopped", ![d].stopped = clock + 1,
                         ![d].stops = @ + 1]
  /\ clock' = clock + 1

\* int(x) of a candidate value: the candidate values here are integers, which
\* int() returns as they are (it gives 0 and 1 for False and True)
int(x) == x

\* the keyword arguments with client_per_node and client_nodes exchanged
attributes_exchanged(s, perm, d) ==
  LET nodes == perm[1]
      tasks == perm[2]
  IN CASE s = "inference_standard" ->
            [colocated |-> 0, client_total |-> tasks * nodes,
             client_per_node |-> nodes, client_nodes |-> tasks,
             database_nodes |-> AxisValue(s, perm, "db_nodes"),
             database_cpus |-> AxisValue(s, perm, "db_cpus"),
             database_threads_per_queue |-> AxisValue(s, perm, "db_tpq"),
             batch_size |-> AxisValue(s, perm, "batch_size"),
             device |-> devcfg.device, num_devices |-> devcfg.num_devices]
       [] s = "inference_colocated" ->
            [colocated |-> 1, pin_app_cpus |-> int(AxisValue(s, perm, "pin_app_cpus")),
             client_total |-> tasks * nodes,
             client_per_node |-> nodes, client_nodes |-> tasks,
             database_nodes |-> nodes,
             database_cpus |-> AxisValue(s, perm, "db_cpus"),
             database_threads_per_queue |-> AxisValue(s, perm, "db_tpq"),
             batch_size |-> AxisValue(s, perm, "batch_size"),
             device |-> devcfg.device, num_devices |-> devcfg.num_devices]
       [] s = "throughput_scaling" ->
            [client_total |-> tasks * nodes,
             client_per_node |-> nodes, client_nodes |-> tasks,
             database_nodes |-> dbs[d].nodes, database_cpus |-> db_cpus,
             iterations |-> iterations,
             tensor_bytes |-> AxisValue(s, perm, "tensor_bytes")]
       [] OTHER -> <<>>

\* the keyword arguments of the write_run_config call in the create_*_session
\* function of sweep s, which become the section "attributes" of run.cfg;
\* nodes and tasks are the first two values of the tuple in every sweep, and
\* the session functions of cpp-throughput write no run.cfg
attributes(s, perm, d) ==
  LET nodes == perm[1]
      tasks == perm[2]
  IN CASE s = "inference_standard" ->
            [colocated |-> 0, client_total |-> tasks * nodes,
             client_per_node |-> tasks, client_nodes |-> nodes,
             database_nodes |-> AxisValue(s, perm, "db_nodes"),
             database_cpus |-> AxisValue(s, perm, "db_cpus"),
             database_threads_per_queue |-> AxisValue(s, perm, "db_tpq"),
             batch_size |-> AxisValue(s, perm, "batch_size"),
             device |-> devcfg.device, num_devices |-> devcfg.num_devices]
       [] s = "inference_colocated" ->
            [colocated |-> 1, pin_app_cpus |-> int(AxisValue(s, perm, "pin_app_cpus")),
             client_total |-> tasks * nodes,
             client_per_node |-> tasks, client_nodes |-> nodes,
             database_nodes |-> nodes,
             database_cpus |-> AxisValue(s, perm, "db_cpus"),
             database_threads_per_queue |-> AxisValue(s, perm, "db_tpq"),
             batch_size |-> AxisValue(s, perm, "batch_size"),
             device |-> devcfg.device, num_devices |-> devcfg.num_devices]
       [] s = "throughput_scaling" ->
            [client_total |-> tasks * nodes,
             client_per_node |-> tasks, client_nodes |-> nodes,
             database_nodes |-> dbs[d].nodes, database_cpus |-> db_cpus,
             iterations |-> iterations,
             tensor_bytes |-> AxisValue(s, perm, "tensor_bytes")]
       [] OTHER -> <<>>

\* the session created and generated, write_run_config left out
create_session_no_cfg(kind, perm, d, cfg) ==
  /\ jobs' = Append(jobs, [kind |-> kind, gi |-> gi, pi |-> pi, perm |-> perm,
                           db |-> d, status |-> STATUS_NEW, cfg |-> FALSE,
                           cfgs |-> 0, cfg_written |-> 0, attributes |-> <<>>,
                           created |-> clock + 1, submitted |-> 0, submits |-> 0,
                           ended |-> 0])
  /\ clock' = clock + 1

\* exp.create_model + exp.generate (+ write_run_config when cfg) for one run;
\* cfgs counts the writes of run.cfg into the run's directory and cfg_written
\* is the time of the write
create_session(kind, perm, d, cfg) ==
  /\ jobs' = Append(jobs, [kind |-> kind, gi |-> gi, pi |-> pi, perm |-> perm,
                           db |-> d, status |-> STATUS_NEW, cfg |-> cfg,
                           cfgs |-> IF cfg THEN 1 ELSE 0,
                           cfg_written |-> IF cfg THEN clock + 1 ELSE 0,
                           attributes |-> IF cfg THEN attributes(sweep, perm, d) ELSE <<>>,
                           created |-> clock + 1, submitted |-> 0, submits |-> 0,
                           ended |-> 0])
  /\ clock' = clock + 1

\* exp.start(model): the job is handed to the launcher; the call does not
\* return before the job is terminal
start_job(j) ==
  /\ jobs' = [jobs EXCEPT ![j].status = STATUS_RUNNING, ![j].submitted = clock + 1,
                           ![j].submits = @ + 1]
  /\ clock' = clock + 1

\* exp.start(model, block=False): the call returns at once
ReturnedAtOnce(j) == TRUE

\* exp.start(model) has returned
Returned(j) == jobs[j].status \in TerminalStatuses

\* for perm in perms: the next iteration, or the statement after the loop
NextPerm(body, after) ==
  IF pi < Len(perms) THEN pi' = pi + 1 /\ pc' = body
  ELSE pi' = pi /\ pc' = after

\* the workload manager ends a running job
JobTerminates ==
  \E j \in 1..Len(jobs), st \in TerminalStatuses :
    /\ jobs[j].status = STATUS_RUNNING
    /\ jobs' = [jobs EXCEPT ![j].status = st, ![j].ended = clock + 1]
    /\ clock' = clock + 1
    /\ UNCHANGED <<outside, sweep, axes, pc, perms, gi, pi, dbs, errors, allocation,
                   data_locations, result, devcfg, final_csv>>

\* ---------------------------------------------------- setup_resnet
\* number of set_model/set_script pairs setup_resnet sends to the database
setup_resnet_calls(device, num_devices) ==
  IF device = "GPU" /\ num_devices > 1 THEN 1
  ELSE IF num_devices > 0 THEN 0   \* devices is built, the loop is in the else
  ELSE 1                           \* devices = [device.upper()], one pass

\* ------------------------------------------------ inference_standard
inference_standard_begin ==
  /\ sweep = "inference_standard" /\ pc = "begin"
  /\ perms' = Product(Pools(sweep, axes))
  /\ IF perms' = <<>>
     THEN pc' = "done" /\ pi' = 0 /\ result' = "returned"
     ELSE pc' = "start_database" /\ pi' = 1 /\ result' = result
  /\ UNCHANGED <<outside, sweep, axes, gi, dbs, jobs, errors, allocation,
                 data_locations, devcfg, final_csv, clock>>

inference_standard_start_database ==
  /\ sweep = "inference_standard" /\ pc = "start_database"
  /\ start_database(AxisValue(sweep, perms[pi], "db_nodes"))
  /\ pc' = "create_session"
  /\ UNCHANGED <<outside, sweep, axes, perms, gi, pi, jobs, errors, allocation,
                 data_locations, result, devcfg, final_csv>>

inference_standard_create_inference_session ==
  /\ sweep = "inference_standard" /\ pc = "create_session"
  /\ create_session("client", perms[pi], db, TRUE)
  /\ pc' = "setup_resnet"
  /\ UNCHANGED <<outside, sweep, axes, perms, gi, pi, dbs, errors, allocation,
                 data_locations, result, devcfg, final_csv>>

inference_standard_setup_resnet ==
  /\ sweep = "inference_standard" /\ pc = "setup_resnet"
  /\ LET n == setup_resnet_calls(devcfg.device, devcfg.num_devices) IN
       IF n > 0
       THEN /\ dbs' = [dbs EXCEPT ![db].models = @ + n, ![db].used = clock + 1]
            /\ clock' = clock + 1
       ELSE UNCHANGED <<dbs, clock>>
  /\ pc' = "start"
  /\ UNCHANGED <<outside, sweep, axes, perms, gi, pi, jobs, errors, allocation,
                 data_locations, result, devcfg, final_csv>>

inference_standard_start ==
  /\ sweep = "inference_standard" /\ pc = "start"
  /\ start_job(session)
  /\ pc' = "blocked"
  /\ UNCHANGED <<outside, sweep, axes, perms, gi, pi, dbs, errors, allocation,
                 data_locations, result, devcfg, final_csv>>

\* the database is stopped only after a run that completed
inference_standard_stop_if_completed ==
  /\ sweep = "inference_standard" /\ pc = "blocked"
  /\ Returned(session)
  /\ IF jobs[session].status = STATUS_COMPLETED
     THEN stop_database(db)
     ELSE UNCHANGED <<dbs, clock>>
  /\ pc' = "get_status"
  /\ UNCHANGED <<outside, sweep, axes, perms, gi, pi, jobs, errors, allocation,
                 data_locations, result, devcfg, final_csv>>

inference_standard_stop ==
  /\ sweep = "inference_standard" /\ pc = "blocked"
  /\ Returned(session)
  /\ stop_database(db)
  /\ pc' = "get_status"
  /\ UNCHANGED <<outside, sweep, axes, perms, gi, pi, jobs, errors, allocation,
                 data_locations, result, devcfg, final_csv>>

\* a check that leaves the loop on a failure, as a break after logger.error would
check_break(stat) == [log |-> stat # STATUS_COMPLETED, abort |-> stat # STATUS_COMPLETED]

\* if stat[0] != status.STATUS_COMPLETED: logger.error(...), nothing else
inference_standard_check(stat) == [log |-> stat # STATUS_COMPLETED, abort |-> FALSE]

inference_standard_get_status ==
  /\ sweep = "inference_standard" /\ pc = "get_status"
  /\ LET chk == inference_standard_check(jobs[session].status) IN
       /\ errors' = IF chk.log THEN Append(errors, session) ELSE errors
       /\ IF chk.abort THEN pc' = "done" /\ pi' = pi
          ELSE NextPerm("start_database", "done")
  /\ result' = IF pc' = "done" THEN "returned" ELSE result
  /\ UNCHANGED <<outside, sweep, axes, perms, gi, dbs, jobs, allocation,
                 data_locations, devcfg, final_csv, clock>>

\* ----------------------------------------------- inference_colocated
inference_colocated_begin ==
  /\ sweep = "inference_colocated" /\ pc = "begin"
  /\ perms' = Product(Pools(sweep, axes))
  /\ IF perms' = <<>>
     THEN pc' = "done" /\ pi' = 0 /\ result' = "returned"
     ELSE pc' = "create_session" /\ pi' = 1 /\ result' = result
  /\ UNCHANGED <<outside, sweep, axes, gi, dbs, jobs, errors, allocation,
                 data_locations, devcfg, final_csv, clock>>

inference_colocated_create_session ==
  /\ sweep = "inference_colocated" /\ pc = "create_session"
  /\ create_session("client", perms[pi], 0, TRUE)
  /\ pc' = "start"
  /\ UNCHANGED <<outside, sweep, axes, perms, gi, pi, dbs, errors, allocation,
                 data_locations, result, devcfg, final_csv>>

inference_colocated_start ==
  /\ sweep = "inference_colocated" /\ pc = "start"
  /\ start_job(session)
  /\ pc' = "blocked"
  /\ UNCHANGED <<outside, sweep, axes, perms, gi, pi, dbs, errors, allocation,
                 data_locations, result, devcfg, final_csv>>

\* if stat[0] != status.STATUS_COMPLETED: logger.error(...), nothing else
inference_colocated_check(stat) == [log |-> stat # STATUS_COMPLETED, abort |-> FALSE]

inference_colocated_get_status ==
  /\ sweep = "inference_colocated" /\ pc = "blocked"
  /\ Returned(session)
  /\ LET chk == inference_colocated_check(jobs[session].status) IN
       /\ errors' = IF chk.log THEN Append(errors, session) ELSE errors
       /\ IF chk.abort THEN pc' = "done" /\ pi' = pi
          ELSE NextPerm("create_session", "done")
  /\ result' = IF pc' = "done" THEN "returned" ELSE result
  /\ UNCHANGED <<outside, sweep, axes, perms, gi, dbs, jobs, allocation,
                 data_locations, devcfg, final_csv, clock>>

\* ------------------------------------------------ throughput_scaling
throughput_scaling_begin ==
  /\ sweep = "throughput_scaling" /\ pc = "begin"
  /\ IF axes["db_nodes"] = <<>>
     THEN pc' = "done" /\ gi' = 0 /\ result' = "returned"
     ELSE pc' = "start_database" /\ gi' = 1 /\ result' = result
  /\ UNCHANGED <<outside, sweep, axes, perms, pi, dbs, jobs, errors, allocation,
                 data_locations, devcfg, final_csv, clock>>

\* start_database(...) and perms = list(product(...)) of one db_node_count
throughput_scaling_start_database ==
  /\ sweep = "throughput_scaling" /\ pc = "start_database"
  /\ start_database(axes["db_nodes"][gi])
  /\ perms' = Product(Pools(sweep, axes))
  /\ IF perms' = <<>>
     THEN pc' = "stop" /\ pi' = 0
     ELSE pc' = "create_session" /\ pi' = 1
  /\ UNCHANGED <<outside, sweep, axes, gi, jobs, errors, allocation,
                 data_locations, result, devcfg, final_csv>>

throughput_scaling_create_throughput_session ==
  /\ sweep = "throughput_scaling" /\ pc = "create_session"
  /\ create_session("client", perms[pi], db, TRUE)
  /\ pc' = "start"
  /\ UNCHANGED <<outside, sweep, axes, perms, gi, pi, dbs, errors, allocation,
                 data_locations, result, devcfg, final_csv>>

throughput_scaling_start ==
  /\ sweep = "throughput_scaling" /\ pc = "start"
  /\ start_job(session)
  /\ pc' = "blocked"
  /\ UNCHANGED <<outside, sweep, axes, perms, gi, pi, dbs, errors, allocation,
                 data_locations, result, devcfg, final_csv>>

\* if stat[0] != status.STATUS_COMPLETED: logger.error(...), nothing else
throughput_scaling_check(stat) == [log |-> stat # STATUS_COMPLETED, abort |-> FALSE]

\* exp.stop(db) indented into the inner loop: the group ends after one run
throughput_scaling_get_status_one_run ==
  /\ sweep = "throughput_scaling" /\ pc = "blocked"
  /\ Returned(session)
  /\ LET chk == throughput_scaling_check(jobs[session].status) IN
       errors' = IF chk.log THEN Append(errors, session) ELSE errors
  /\ pc' = "stop" /\ pi' = pi
  /\ UNCHANGED <<outside, sweep, axes, perms, gi, dbs, jobs, allocation,
                 data_locations, result, devcfg, final_csv, clock>>

throughput_scaling_get_status ==
  /\ sweep = "throughput_scaling" /\ pc = "blocked"
  /\ Returned(session)
  /\ LET chk == throughput_scaling_check(jobs[session].status) IN
       /\ errors' = IF chk.log THEN Append(errors, session) ELSE errors
       /\ IF chk.abort THEN pc' = "done" /\ pi' = pi
          ELSE NextPerm("create_session", "stop")
  /\ result' = IF pc' = "done" THEN "returned" ELSE result
  /\ UNCHANGED <<outside, sweep, axes, perms, gi, dbs, jobs, allocation,
                 data_locations, devcfg, final_csv, clock>>

\* exp.stop(db) after the inner loop, then the next db_node_count
throughput_scaling_stop ==
  /\ sweep = "throughput_scaling" /\ pc = "stop"
  /\ stop_database(db)
  /\ IF gi < Len(axes["db_nodes"])
     THEN gi' = gi + 1 /\ pc' = "start_database" /\ result' = result
     ELSE gi' = gi /\ pc' = "done" /\ result' = "returned"
  /\ UNCHANGED <<outside, sweep, axes, perms, pi, jobs, errors, allocation,
                 data_locations, devcfg, final_csv>>

\* ------------------------------- cpp-throughput/driver.py: throughput
\* max(client_nodes) of slurm.get_allocation(nodes=max(client_nodes), ...)
RECURSIVE Max(_)
Max(list) ==
  IF Len(list) = 1 THEN list[1]
  ELSE LET m == Max(Tail(list)) IN IF Head(list) >= m THEN Head(list) ELSE m

throughput_begin ==
  /\ sweep = "throughput" /\ pc = "begin"
  /\ IF axes["client_nodes"] = <<>>
     THEN \* max() of an empty list raises ValueError
          /\ pc' = "done" /\ result' = "ValueError"
          /\ UNCHANGED <<perms, pi, allocation, clock>>
     ELSE /\ allocation' = [state |-> "held", nodes |-> Max(axes["client_nodes"]),
                            releases |-> 0]
          /\ clock' = clock + 1
          /\ perms' = Product(Pools(sweep, axes))
          /\ result' = result
          /\ IF perms' = <<>>
             THEN pc' = "finish" /\ pi' = 0
             ELSE pc' = "start_database" /\ pi' = 1
  /\ UNCHANGED <<outside, sweep, axes, gi, dbs, jobs, errors, data_locations, devcfg, final_csv>>

\* start_database of cpp-throughput/driver.py: SlurmOrchestrator, exp.start(db)
cpp_start_database(nodes) == start_database(nodes)

throughput_start_database ==
  /\ sweep = "throughput" /\ pc = "start_database"
  /\ cpp_start_database(perms[pi][3])
  /\ pc' = "create_session"
  /\ UNCHANGED <<outside, sweep, axes, perms, gi, pi, jobs, errors, allocation,
                 data_locations, result, devcfg, final_csv>>

\* create_throughput_session of cpp-throughput/driver.py: no run.cfg is written
throughput_create_throughput_session ==
  /\ sweep = "throughput" /\ pc = "create_session"
  /\ create_session("client", perms[pi], db, FALSE)
  /\ pc' = "start"
  /\ UNCHANGED <<outside, sweep, axes, perms, gi, pi, dbs, errors, allocation,
                 data_locations, result, devcfg, final_csv>>

throughput_start ==
  /\ sweep = "throughput" /\ pc = "start"
  /\ start_job(session)
  /\ pc' = "blocked"
  /\ UNCHANGED <<outside, sweep, axes, perms, gi, pi, dbs, errors, allocation,
                 data_locations, result, devcfg, final_csv>>

\* a check that only logs, as the loop would without its break
check_continue(stat) == [log |-> stat # STATUS_COMPLETED, abort |-> FALSE]

\* if status[0] != constants.STATUS_COMPLETED: logger.error(...); break
throughput_check(stat) == [log |-> stat # STATUS_COMPLETED, abort |-> stat # STATUS_COMPLETED]

throughput_get_status ==
  /\ sweep = "throughput" /\ pc = "blocked"
  /\ Returned(session)
  /\ LET chk == throughput_check(jobs[session].status) IN
       /\ errors' = IF chk.log THEN Append(errors, session) ELSE errors
       /\ pc' = IF chk.abort THEN "finish" ELSE "post"
  /\ UNCHANGED <<outside, sweep, axes, perms, gi, pi, dbs, jobs, allocation,
                 data_locations, result, devcfg, final_csv, clock>>

\* create_post_process, data_locations.append, exp.start(post)
throughput_post ==
  /\ sweep = "throughput" /\ pc = "post"
  /\ jobs' = Append(jobs, [kind |-> "post", gi |-> gi, pi |-> pi, perm |-> perms[pi],
                           db |-> db, status |-> STATUS_RUNNING, cfg |-> FALSE,
                           cfgs |-> 0, cfg_written |-> 0, attributes |-> <<>>,
                           created |-> clock + 1, submitted |-> clock + 1, submits |-> 1,
                           ended |-> 0])
  /\ data_locations' = Append(data_locations, [run |-> session, post |-> session + 1])
  /\ clock' = clock + 1
  /\ pc' = "post_blocked"
  /\ UNCHANGED <<outside, sweep, axes, perms, gi, pi, dbs, errors, allocation,
                 result, devcfg, final_csv>>

\* exp.stop(db) at the end of the loop body
throughput_stop ==
  /\ sweep = "throughput" /\ pc = "post_blocked"
  /\ Returned(session)
  /\ stop_database(db)
  /\ NextPerm("start_database", "finish")
  /\ UNCHANGED <<outside, sweep, axes, perms, gi, jobs, errors, allocation,
                 data_locations, result, devcfg, final_csv>>

\* name = "-".join(("throughput-sess", str(nodes), str(tasks), str(db), str(bytes)))
\* of the client job j; the run's directory is named after it
cpp_session_name(j) == <<"throughput-sess">> \o jobs[j].perm

\* the newest client job whose name, and so whose directory, is that of job j:
\* its exp.generate(model, overwrite=True) emptied the directory
LastNamed(j) ==
  CHOOSE k \in 1..Len(jobs) :
    /\ jobs[k].kind = "client" /\ cpp_session_name(k) = cpp_session_name(j)
    /\ \A o \in 1..Len(jobs) :
         (jobs[o].kind = "client" /\ cpp_session_name(o) = cpp_session_name(j)) => o <= k

\* <path>/<name>.csv of a data location exists when the post-processing job
\* of the newest run of that name completed
Readable(loc) ==
  LET k == LastNamed(loc.run) IN
    /\ k + 1 <= Len(jobs)
    /\ jobs[k + 1].kind = "post" /\ jobs[k + 1].pi = jobs[k].pi
    /\ jobs[k + 1].status = STATUS_COMPLETED

\* get_stats + pd.merge + to_csv: one pd.read_csv per data location, not
\* guarded, so any exception leaves no CSV; a row is named by the run whose
\* post-processing wrote the file read
get_stats(locs) ==
  IF locs # <<>> /\ \A i \in 1..Len(locs) : Readable(locs[i])
  THEN [written |-> TRUE, rows |-> [i \in 1..Len(locs) |-> LastNamed(locs[i].run)]]
  ELSE NoFinalCsv

\* slurm.release_allocation(allocation) moved into the try, after to_csv
throughput_finish_release_in_try ==
  /\ sweep = "throughput" /\ pc = "finish"
  /\ final_csv' = get_stats(data_locations)
  /\ allocation' = IF final_csv'.written
                   THEN [allocation EXCEPT !.state = "released", !.releases = @ + 1]
                   ELSE allocation
  /\ clock' = clock + 1
  /\ pc' = "done"
  /\ result' = "returned"
  /\ UNCHANGED <<outside, sweep, axes, perms, gi, pi, dbs, jobs, errors,
                 data_locations, devcfg>>

\* try: aggregate; except: print; then slurm.release_allocation(allocation)
throughput_finish ==
  /\ sweep = "throughput" /\ pc = "finish"
  /\ final_csv' = get_stats(data_locations)
  /\ allocation' = [allocation EXCEPT !.state = "released", !.releases = @ + 1]
  /\ clock' = clock + 1
  /\ pc' = "done"
  /\ result' = "returned"
  /\ UNCHANGED <<outside, sweep, axes, perms, gi, pi, dbs, jobs, errors,
                 data_locations, devcfg>>

Next ==
  \/ JobTerminates
  \/ inference_standard_begin
  \/ inference_standard_start_database
  \/ inference_standard_create_inference_session
  \/ inference_standard_setup_resnet
  \/ inference_standard_start
  \/ inference_standard_stop
  \/ inference_standard_get_status
  \/ inference_colocated_begin
  \/ inference_colocated_create_session
  \/ inference_colocated_start
  \/ inference_colocated_get_status
  \/ throughput_scaling_begin
  \/ throughput_scaling_start_database
  \/ throughput_scaling_create_throughput_session
  \/ throughput_scaling_start
  \/ throughput_scaling_get_status
  \/ throughput_scaling_stop
  \/ throughput_begin
  \/ throughput_start_database
  \/ throughput_create_throughput_session
  \/ throughput_start
  \/ throughput_get_status
  \/ throughput_post
  \/ throughput_stop
  \/ throughput_finish

Spec == Init /\ [][Next]_vars

\* the steps of the driver itself: every step but the workload manager's
Driver ==
  \/ inference_standard_begin
  \/ inference_standard_start_database
  \/ inference_standard_create_inference_session
  \/ inference_standard_setup_resnet
  \/ inference_standard_start
  \/ inference_standard_stop
  \/ inference_standard_get_status
  \/ inference_colocated_begin
  \/ inference_colocated_create_session
  \/ inference_colocated_start
  \/ inference_colocated_get_status
  \/ throughput_scaling_begin
  \/ throughput_scaling_start_database
  \/ throughput_scaling_create_throughput_session
  \/ throughput_scaling_start
  \/ throughput_scaling_get_status
  \/ throughput_scaling_stop
  \/ throughput_begin
  \/ throughput_start_database
  \/ throughput_create_throughput_session
  \/ throughput_start
  \/ throughput_get_status
  \/ throughput_post
  \/ throughput_stop
  \/ throughput_finish

\* ======================================================================
\* Post-processing: process_scaling_results (src/driver.py)
\* ======================================================================
\* most entries of the scaling directory
MaxBatch == 3
\* most calls of process_scaling_results over one directory
MaxCalls == 2

\* the state of the sweep functions
sweepvars == <<sweep, axes, pc, perms, gi, pi, dbs, jobs, errors, allocation,
               data_locations, result, devcfg, final_csv, clock>>

\* no sweep is running
NoSweep ==
  /\ sweep = "none" /\ axes = <<>> /\ pc = "done" /\ perms = <<>>
  /\ gi = 0 /\ pi = 0 /\ dbs = <<>> /\ jobs = <<>> /\ errors = <<>>
  /\ allocation = [state |-> "none", nodes |-> 0, releases |-> 0]
  /\ data_locations = <<>> /\ result = "returned"
  /\ devcfg = DefaultDevice /\ final_csv = NoFinalCsv /\ clock = 0

\* results/<run>/<run>.csv: absent, written by an earlier extraction of run k,
\* or present but not parseable.  rows names the run the rows belong to and
\* mtime is the time of the write (0: before the first call).
NoCsv == [exists |-> FALSE, readable |-> FALSE, rows |-> 0, mtime |-> 0]
Csv(k, t) == [exists |-> TRUE, readable |-> TRUE, rows |-> k, mtime |-> t]
CorruptCsv == [exists |-> TRUE, readable |-> FALSE, rows |-> 0, mtime |-> 0]

\* what entry k of the scaling directory may be: a run directory (its name
\* contains "sess") whose raw timing files can or cannot be extracted, with any
\* state of its per-run CSV, or something else (the results directory, a log)
DirEntries(k) ==
  [sess : {TRUE}, raw : {"ok", "bad"}, csv : {NoCsv, Csv(k, 0), CorruptCsv}]
    \cup {[sess |-> FALSE, raw |-> "bad", csv |-> NoCsv]}
Dirs ==
  UNION {{d \in [1..n -> UNION {DirEntries(k) : k \in 1..n}] :
            \A k \in 1..n : d[k] \in DirEntries(k)} : n \in 0..MaxBatch}

InitAgg ==
  /\ NoSweep
  /\ sessions = <<>>
  /\ plot = [pc |-> "idle"]
  /\ agg \in [pc : {"ready"}, dir : Dirs, calls : {0}, overwrite : {TRUE},
              runs : {<<>>}, i : {0}, dataframes : {<<>>}, warnings : {<<>>},
              errors : {0}, written : {FALSE}, combined : {<<>>},
              result : {"none"}, before : {<<>>}, tick : {0}]

\* the names listed twice, as when the results directory is listed as well
listdir_sess_twice(dir) ==
  LET IsRun(k) == dir[k].sess IN
    SelectSeq([k \in 1..Len(dir) |-> k], IsRun) \o SelectSeq([k \in 1..Len(dir) |-> k], IsRun)

\* [d for d in os.listdir(scaling_dir) if "sess" in d]: an entry is named by
\* its position in the directory
listdir_sess(dir) ==
  LET IsRun(k) == dir[k].sess IN SelectSeq([k \in 1..Len(dir) |-> k], IsRun)

\* delete_previous=True whatever overwrite is
delete_previous_always(overwrite) == TRUE

\* the keyword argument of create_run_csv(run_path, delete_previous=overwrite)
delete_previous(overwrite) == overwrite

\* process_results.create_run_csv(run_path, delete_previous): the outcomes it
\* can have on run k at time t.  An existing per-run CSV is left alone unless
\* delete_previous; otherwise the raw files are extracted into a new CSV, and
\* an extraction that raises writes none (a previous CSV that was to be
\* replaced may or may not be gone by then).
create_run_csv(k, e, del, t) ==
  IF e.csv.exists /\ ~del THEN {[csv |-> e.csv, raised |-> FALSE]}
  ELSE IF e.raw = "ok" THEN {[csv |-> Csv(k, t), raised |-> FALSE]}
  ELSE {[csv |-> c, raised |-> TRUE] : c \in {NoCsv, e.csv}}

\* pd.concat([]) returns an empty frame
concat_never_raises(dataframes) == FALSE

\* pd.concat(dataframes, join="outer") raises ValueError on an empty list
concat_raises(dataframes) == dataframes = <<>>

\* the entry of the function: result_dir, runs = [...], the locals
process_scaling_results_begin ==
  /\ agg.pc \in {"ready", "done"} /\ agg.calls < MaxCalls
  /\ \E overwrite \in BOOLEAN :
       LET runs == listdir_sess(agg.dir) IN
         agg' = [agg EXCEPT !.pc = IF runs = <<>> THEN "concat" ELSE "create",
                            !.calls = @ + 1, !.overwrite = overwrite,
                            !.runs = runs, !.i = 1, !.dataframes = <<>>,
                            !.warnings = <<>>, !.errors = 0, !.written = FALSE,
                            !.result = "running", !.before = agg.dir]
  /\ UNCHANGED <<sweepvars, sessions, plot>>

\* for run in runs: one pass of the next loop, or the statement after it
NextRun(a, after) ==
  IF a.i < Len(a.runs) THEN [a EXCEPT !.i = @ + 1]
  ELSE [a EXCEPT !.i = 1, !.pc = after]

\* first loop: create_run_csv in a try; except: two log lines and continue
process_scaling_results_create ==
  /\ agg.pc = "create"
  /\ LET run == agg.runs[agg.i] IN
       \E out \in create_run_csv(run, agg.dir[run], delete_previous(agg.overwrite),
                                 agg.tick + 1) :
         agg' = NextRun([agg EXCEPT !.dir[run].csv = out.csv,
                                    !.tick = @ + 1,
                                    !.warnings = IF out.raised
                                                 THEN Append(@, [run |-> run, loop |-> "create"])
                                                 ELSE @],
                        "collect")
  /\ UNCHANGED <<sweepvars, sessions, plot>>

\* the second loop without its try: an unreadable CSV ends the call
process_scaling_results_collect_strict ==
  /\ agg.pc = "collect"
  /\ LET run == agg.runs[agg.i] IN
       agg' = IF agg.dir[run].csv.readable
              THEN NextRun([agg EXCEPT !.dataframes = Append(@, agg.dir[run].csv.rows)],
                           "concat")
              ELSE [agg EXCEPT !.pc = "done", !.errors = @ + 1, !.result = "ParserError"]
  /\ UNCHANGED <<sweepvars, sessions, plot>>

\* second loop: pd.read_csv of results/<run>/<run>.csv in a try, the frame is
\* appended; except: two log lines and continue
process_scaling_results_collect ==
  /\ agg.pc = "collect"
  /\ LET run == agg.runs[agg.i] IN
       agg' = NextRun(IF agg.dir[run].csv.readable
                      THEN [agg EXCEPT !.dataframes = Append(@, agg.dir[run].csv.rows)]
                      ELSE [agg EXCEPT !.warnings = Append(@, [run |-> run, loop |-> "collect"])],
                      "concat")
  /\ UNCHANGED <<sweepvars, sessions, plot>>

\* final_df = pd.concat(...); final_df.to_csv(csv_path); the outer except logs
\* "Could not preprocess results" and raises again
process_scaling_results_concat ==
  /\ agg.pc = "concat"
  /\ agg' = IF concat_raises(agg.dataframes)
            THEN [agg EXCEPT !.pc = "done", !.errors = @ + 1, !.result = "ValueError"]
            ELSE [agg EXCEPT !.pc = "done", !.written = TRUE,
                             !.combined = agg.dataframes, !.result = "returned"]
  /\ UNCHANGED <<sweepvars, sessions, plot>>

NextAgg ==
  \/ process_scaling_results_begin
  \/ process_scaling_results_create
  \/ process_scaling_results_collect
  \/ process_scaling_results_concat

SpecAgg == InitAgg /\ [][NextAgg]_vars

\* ======================================================================
\* Run naming: _get_uuid and the create_*_session functions
\* ======================================================================
\* most sessions created in one experiment directory
MaxSessions == 2
\* number of different values the first four characters of a uuid take here
\* (16^4 in the program)
MaxUid == 2

\* str(uuid4()): its first four characters and the rest of the string
Uuid4s == (1..MaxUid) \X (1..2)

\* str(uuid4())[:4]
get_uuid(u) == u[1]

\* the parameter tuples a session may be created for: one value per swept
\* axis of sweep s, at most two of them off the default
RunSpecs(s) ==
  {t \in [1..Len(SweptAxes(s)) -> Vals] : Cardinality({i \in DOMAIN t : t[i] # 1}) <= 2}

\* value of the swept axis name in the parameter tuple rs of sweep s
Swept(s, rs, name) ==
  rs[CHOOSE i \in 1..Len(SweptAxes(s)) : SweptAxes(s)[i] = name]

\* the strings joined by "-" ahead of the uuid, as the create_*_session
\* function of sweep s builds them from its arguments: <<"N", 2>> is "N2".
\* A letter prefix followed by a decimal number, and a bare decimal number,
\* contain no "-", so two joined strings are equal exactly when their lists of
\* parts are.
name_parts(s, rs) ==
  CASE s = "inference_standard" ->
         << <<"infer-sess", 0>>,
            <<"N", Swept(s, rs, "client_nodes")>>, <<"T", Swept(s, rs, "clients_per_node")>>,
            <<"DBN", Swept(s, rs, "db_nodes")>>, <<"DBC", Swept(s, rs, "db_cpus")>>,
            <<"DBTPQ", Swept(s, rs, "db_tpq")>> >>
    [] s = "inference_colocated" ->
         << <<"infer-sess-colo", 0>>,
            <<"N", Swept(s, rs, "nodes")>>, <<"T", Swept(s, rs, "clients_per_node")>>,
            <<"DBN", Swept(s, rs, "nodes")>>, <<"DBC", Swept(s, rs, "db_cpus")>>,
            <<"DBTPQ", Swept(s, rs, "db_tpq")>> >>
    [] s = "throughput_scaling" ->
         << <<"throughput-sess", 0>>,
            <<"N", Swept(s, rs, "client_nodes")>>, <<"T", Swept(s, rs, "clients_per_node")>>,
            <<"DBN", Swept(s, rs, "db_nodes")>>, <<"ITER", iterations>>,
            <<"TB", Swept(s, rs, "tensor_bytes")>> >>
    [] s = "throughput" ->
         << <<"throughput-sess", 0>>,
            <<"", Swept(s, rs, "client_nodes")>>, <<"", Swept(s, rs, "clients_per_node")>>,
            <<"", Swept(s, rs, "db_nodes")>>, <<"", Swept(s, rs, "tensor_bytes")>> >>

\* name = "-".join((...)): the functions of driver.py end the name with
\* _get_uuid(), create_throughput_session of cpp-throughput does not
session_name(s, rs, u) ==
  IF s = "throughput" THEN name_parts(s, rs)
  ELSE Append(name_parts(s, rs), <<"uuid", get_uuid(u)>>)

InitNames ==
  /\ NoSweep
  /\ agg = [pc |-> "idle"]
  /\ sessions = <<>>
  /\ plot = [pc |-> "idle"]

\* one call of the create_*_session function of sweep s: exp.create_model
\* under the name built, exp.generate(model, overwrite=True) of its directory.
\* uuid4() does not return a value it returned before; create_throughput_session
\* of cpp-throughput does not call it (uuid4 <<0, 0>>).
new_session(s) ==
  /\ \A n \in DOMAIN sessions : sessions[n].kind = s
  /\ LET fresh == IF s = "throughput" THEN {<<0, 0>>}
                  ELSE {v \in Uuid4s : \A n \in DOMAIN sessions : sessions[n].uuid4 # v}
     IN \E rs \in RunSpecs(s), u \in fresh :
          sessions' = Append(sessions, [kind |-> s, spec |-> rs, uuid4 |-> u,
                                        name |-> session_name(s, rs, u)])

create_inference_session ==
  /\ Len(sessions) < MaxSessions
  /\ new_session("inference_standard")
  /\ UNCHANGED <<sweepvars, agg, plot>>

create_colocated_inference_session ==
  /\ Len(sessions) < MaxSessions
  /\ new_session("inference_colocated")
  /\ UNCHANGED <<sweepvars, agg, plot>>

create_throughput_session ==
  /\ Len(sessions) < MaxSessions
  /\ new_session("throughput_scaling")
  /\ UNCHANGED <<sweepvars, agg, plot>>

cpp_create_throughput_session ==
  /\ Len(sessions) < MaxSessions
  /\ new_session("throughput")
  /\ UNCHANGED <<sweepvars, agg, plot>>

NextNames ==
  \/ create_inference_session
  \/ create_colocated_inference_session
  \/ create_throughput_session
  \/ cpp_create_throughput_session

SpecNames == InitNames /\ [][NextNames]_vars

\* ======================================================================
\* throughput_scaling with a database that may fail to start
\* ======================================================================
InitDeploy ==
  /\ Init
  /\ sweep = "throughput_scaling"

\* exp.start(db) in start_database raises (the launch of the database fails):
\* neither start_database nor throughput_scaling catches it, the exception
\* leaves the sweep function
throughput_scaling_start_database_raises ==
  /\ sweep = "throughput_scaling" /\ pc = "start_database"
  /\ dbs' = Append(dbs, [nodes |-> axes["db_nodes"][gi], status |-> STATUS_FAILED,
                         gi |-> gi, pi |-> pi, models |-> 0,
                         started |-> 0, used |-> 0, stopped |-> 0, stops |-> 0])
  /\ clock' = clock + 1
  /\ pc' = "done"
  /\ result' = "SmartSimError"
  /\ UNCHANGED <<outside, sweep, axes, perms, gi, pi, jobs, errors, allocation,
                 data_locations, devcfg, final_csv>>

NextDeploy ==
  \/ JobTerminates
  \/ throughput_scaling_begin
  \/ throughput_scaling_start_database
  \/ throughput_scaling_start_database_raises
  \/ throughput_scaling_create_throughput_session
  \/ throughput_scaling_start
  \/ throughput_scaling_get_status
  \/ throughput_scaling_stop

SpecDeploy == InitDeploy /\ [][NextDeploy]_vars

\* ======================================================================
\* throughput-plotter.py: extraction of the throughput samples
\* ======================================================================
\* most lines in one rank file of a run directory
MaxLines == 2

\* nnodes of the iteration of the product loop followed here (the first of
\* nnodes_all)
nnodes == 128
\* the first two of DB_nodes
DB_nodes == <<16, 32>>
\* the first and the last but three of sizes after sizes.sort()
sizes == <<1024, 1024000>>
threads == 36
loop_iters == 100
\* the literal 1e9
e9 == 1000000000

\* Exact fractions [num, den] in lowest terms stand for the floats computed.
RECURSIVE GCD(_, _)
GCD(a, b) == IF b = 0 THEN a ELSE GCD(b, a % b)

Rat(n, d) == LET g == GCD(n, d) IN [num |-> n \div g, den |-> d \div g]

\* a * b, cancelling before multiplying
RatMul(a, b) ==
  LET g1 == GCD(a.num, b.den)
      g2 == GCD(b.num, a.den)
  IN [num |-> (a.num \div g1) * (b.num \div g2),
      den |-> (a.den \div g2) * (b.den \div g1)]

\* a / b
RatDiv(a, b) == RatMul(a, [num |-> b.den, den |-> b.num])

\* the texts found in the third field of a line, and float() of them
TimeTexts == {"1.0", "0.5"}
float(text) ==
  CASE text = "1.0" -> Rat(1, 1)
    [] text = "0.5" -> Rat(1, 2)

\* size/float(vals[2])/1e9
speed_of_one_iteration(size, text) ==
  RatDiv(RatDiv(Rat(size, 1), float(text)), Rat(e9, 1))

\* speed = size*loop_iters/float(vals[2])/1e9
speed(size, text) ==
  RatDiv(RatDiv(Rat(size * loop_iters, 1), float(text)), Rat(e9, 1))

\* A line is the list line.split(',') makes of it: rank, label, elapsed time;
\* the last is an empty line.
Lines ==
  {<<"0", "loop_time", "1.0">>, <<"0", "loop_time", "0.5">>,
   <<"0", "put_tensor", "1.0">>, <<"">>}
LineSeqs == UNION {[1..n -> Lines] : n \in 0..MaxLines}

\* the files a run directory may hold, and the substrings '.csv' and 'rank_'
\* each name contains
RankFiles == {"rank_0_timing.csv", "rank_1_timing.csv"}
FileNames == RankFiles \cup {"run.cfg"}
Contains(file) == IF file \in RankFiles THEN {".csv", "rank_"} ELSE {}

\* the keys of function_times
function_times == {"loop_time"}

\* every line with a second field is kept
is_timed_any(vals) == TRUE

\* vals[1] in function_times.keys()
is_timed(vals) == vals[2] \in function_times

\* the name of the run directory of the throughput session with these
\* parameters, as create_throughput_session of driver.py builds it
launched_name(n, t, dbn, tb) ==
  LET s == "throughput_scaling"
      rs == [i \in 1..Len(SweptAxes(s)) |->
               CASE SweptAxes(s)[i] = "client_nodes" -> n
                 [] SweptAxes(s)[i] = "clients_per_node" -> t
                 [] SweptAxes(s)[i] = "db_nodes" -> dbn
                 [] SweptAxes(s)[i] = "tensor_bytes" -> tb]
  IN session_name(s, rs, <<1, 1>>)

\* the pattern f'thoughput-sess-N{nnodes}-T{threads}-DBN{DB_node}-
\* ITER{loop_iters}-TB{size}-*' without its final "-*", as the parts joined
\* by "-"
path_root(DB_node, size) ==
  << <<"thoughput-sess", 0>>, <<"N", nnodes>>, <<"T", threads>>,
     <<"DBN", DB_node>>, <<"ITER", loop_iters>>, <<"TB", size>> >>

\* glob(path_root): the indices of the entries of base_path whose name is the
\* pattern's text followed by "-" and any characters
glob(dirs, pattern) ==
  SelectSeq([i \in DOMAIN dirs |-> i],
            LAMBDA i : /\ Len(dirs[i].name) > Len(pattern)
                       /\ SubSeq(dirs[i].name, 1, Len(pattern)) = pattern)

\* the run directories base_path may hold: named by the launcher or after
\* the plotter's pattern, for parameters of the plotter's loops; each rank
\* file absent or holding up to MaxLines lines
RunDirs ==
  {[name |-> nm, files |-> f] :
     nm \in UNION {{launched_name(nnodes, threads, dbn, tb),
                    [launched_name(nnodes, threads, dbn, tb)
                       EXCEPT ![1] = <<"thoughput-sess", 0>>]} :
                   dbn \in {DB_nodes[1], DB_nodes[2]}, tb \in {sizes[1], sizes[2]}},
     f \in {[n \in FileNames |->
               IF n \in RankFiles THEN g[n]
               ELSE [exists |-> TRUE, lines |-> << <<"[run]">> >>]] :
            g \in [RankFiles -> {[exists |-> FALSE, lines |-> <<>>]} \cup
                                [exists : {TRUE}, lines : LineSeqs]]}}

InitPlot ==
  /\ NoSweep
  /\ agg = [pc |-> "idle"]
  /\ sessions = <<>>
  /\ \E dirs \in {<<>>} \cup {<<d>> : d \in RunDirs} :
       plot = [pc |-> "size", dirs |-> dirs, di |-> 1, si |-> 1,
               dfs |-> <<>>, df_dbs |-> <<>>, warnings |-> <<>>]

\* the orders os.listdir(path) may return the names in
listdir(d) ==
  LET present == {n \in FileNames : d.files[n].exists}
  IN {o \in [1..Cardinality(present) -> present] :
        \A a, b \in DOMAIN o : o[a] = o[b] => a = b}

\* for i, line in enumerate(f): the samples appended to
\* function_times['loop_time'], or the exception raised by vals[1] or vals[2]
\* on a line with too few fields
RECURSIVE read_lines(_, _, _)
read_lines(lines, size, acc) ==
  IF lines = <<>> THEN [raised |-> FALSE, loop_time |-> acc]
  ELSE LET vals == Head(lines)
       IN IF Len(vals) < 2 THEN [raised |-> TRUE, loop_time |-> acc]
          ELSE IF is_timed(vals)
               THEN IF Len(vals) < 3 THEN [raised |-> TRUE, loop_time |-> acc]
                    ELSE read_lines(Tail(lines), size,
                                    Append(acc, speed(size, vals[3])))
               ELSE read_lines(Tail(lines), size, acc)

\* for file in files: the files with '.csv' and 'rank_' in their names are read
RECURSIVE read_files(_, _, _, _)
read_files(d, files, size, acc) ==
  IF files = <<>> THEN [raised |-> FALSE, loop_time |-> acc]
  ELSE IF {".csv", "rank_"} \subseteq Contains(Head(files))
       THEN LET r == read_lines(d.files[Head(files)].lines, size, acc)
            IN IF r.raised THEN r
               ELSE read_files(d, Tail(files), size, r.loop_time)
       ELSE read_files(d, Tail(files), size, acc)

\* one iteration of "for size in sizes": the try block and its bare except.
\* globbed[0] raises when nothing matches; whatever is raised, the warning is
\* printed and dfs gets no entry for size.
plotter_size ==
  /\ plot.pc = "size"
  /\ LET DB_node == DB_nodes[plot.di]
         size == sizes[plot.si]
         globbed == glob(plot.dirs, path_root(DB_node, size))
         nxt == IF plot.si < Len(sizes) THEN [plot EXCEPT !.si = plot.si + 1]
                ELSE [plot EXCEPT !.pc = "df_dbs"]
         missing == [nxt EXCEPT !.warnings = Append(plot.warnings, <<DB_node, size>>)]
     IN IF globbed = <<>> THEN plot' = missing
        ELSE LET path == globbed[1]
             IN \E files \in listdir(plot.dirs[path]) :
                  LET r == read_files(plot.dirs[path], files, size, <<>>)
                  IN IF r.raised THEN plot' = missing
                     ELSE plot' = [nxt EXCEPT !.dfs =
                                     (size :> [path |-> path, files |-> files,
                                               loop_time |-> r.loop_time]) @@ plot.dfs]
  /\ UNCHANGED <<sweepvars, agg, sessions>>

\* df_dbs[DB_node] = dfs, and the next DB_node with dfs = dict()
plotter_DB_node ==
  /\ plot.pc = "df_dbs"
  /\ plot' = [plot EXCEPT !.df_dbs = (DB_nodes[plot.di] :> plot.dfs) @@ plot.df_dbs,
                          !.dfs = <<>>,
                          !.si = 1,
                          !.di = IF plot.di < Len(DB_nodes) THEN plot.di + 1 ELSE plot.di,
                          !.pc = IF plot.di < Len(DB_nodes) THEN "size" ELSE "done"]
  /\ UNCHANGED <<sweepvars, agg, sessions>>

NextPlot ==
  \/ plotter_size
  \/ plotter_DB_node

SpecPlot == InitPlot /\ [][NextPlot]_vars

\* ======================================================================
\* Properties
\* ======================================================================
\* Times are values of clock; 0 stands for "has not happened".
\* if the event at time b happened, the event at time a happened before it
Precedes(a, b) == b # 0 => (a # 0 /\ a < b)

JobIds == 1..Len(jobs)
DbIds == 1..Len(dbs)
ClientIds == {j \in JobIds : jobs[j].kind = "client"}
\* the jobs bound to deployment d
JobsOf(d) == {j \in JobIds : jobs[j].db = d}
\* the job ended in a terminal state other than Completed
Failed(j) == jobs[j].status \in TerminalStatuses \ {STATUS_COMPLETED}
Reported(j) == \E k \in DOMAIN errors : errors[k] = j
AnyAxisEmpty == \E n \in DOMAIN axes : axes[n] = <<>>
\* number of tuples of the whole sweep
NumRuns == LenProduct(axes, SweptAxes(sweep))
\* the status of a record agrees with its history
JobHistoryOk(j) ==
  /\ jobs[j].status = STATUS_NEW <=> jobs[j].submitted = 0
  /\ jobs[j].status \in TerminalStatuses <=> jobs[j].ended # 0
  /\ jobs[j].submits = (IF jobs[j].submitted = 0 THEN 0 ELSE 1)
  /\ jobs[j].created <= jobs[j].submitted \/ jobs[j].submitted = 0
  /\ Precedes(jobs[j].submitted, jobs[j].ended)
DbHistoryOk(d) ==
  /\ dbs[d].started # 0
  /\ dbs[d].status = "Stopped" <=> dbs[d].stopped # 0
  /\ dbs[d].stops = (IF dbs[d].stopped = 0 THEN 0 ELSE 1)
  /\ Precedes(dbs[d].started, dbs[d].stopped)

\* C1: in inference_standard and inference_colocated the k-th model created is
\* the run of permutation k and is submitted once (none skipped, none retried);
\* a run that ended Failed or Cancelled is reported by logger.error and is
\* followed by the next permutation; when the sweep returns, every permutation
\* of the product has been run, whatever the outcomes were.
C1_StandardSweepContinues ==
  sweep \in {"inference_standard", "inference_colocated"} =>
    /\ \A j \in JobIds :
         /\ jobs[j].pi = j
         /\ JobHistoryOk(j)
         /\ (j < Len(jobs) \/ pc = "done") =>
              /\ jobs[j].status \in TerminalStatuses
              /\ Failed(j) <=> Reported(j)
    /\ pc = "done" => result = "returned" /\ Len(jobs) = NumRuns

\* C1 witness: a standard sweep that returned after its first run failed and
\* its second was cancelled, a third run having followed them
C1_Witness ==
  /\ sweep = "inference_standard" /\ pc = "done"
  /\ Len(jobs) >= 3
  /\ jobs[1].status = STATUS_FAILED /\ jobs[2].status = STATUS_CANCELLED
  /\ jobs[3].status = STATUS_COMPLETED

\* C2: in throughput() of cpp-throughput/driver.py, once the client job of
\* permutation i has ended in a terminal state other than Completed, there is
\* no deployment and no client or post-processing job of a permutation j > i.
C2_ThroughputStopsAfterFailure ==
  sweep = "throughput" =>
    \A j \in ClientIds : Failed(j) =>
      /\ \A k \in JobIds : jobs[k].pi <= jobs[j].pi
      /\ \A d \in DbIds : dbs[d].pi <= jobs[j].pi
      /\ pi <= jobs[j].pi

\* C2 witness: the sweep returned, its second of at least three permutations
\* having failed after the first completed
C2_Witness ==
  /\ sweep = "throughput" /\ pc = "done" /\ Len(perms) >= 3
  /\ \E j \in ClientIds : Failed(j) /\ jobs[j].pi = 2

\* C3: when throughput() of cpp-throughput/driver.py has returned, every
\* deployment it started has been stopped, also after a failure ended the loop.
C3_TeardownOnAbort ==
  (sweep = "throughput" /\ pc = "done") =>
    \A d \in DbIds : dbs[d].status = "Stopped"

\* C4: in throughput_scaling a client job that ended in a terminal state other
\* than Completed is the last thing the sweep submits: no later permutation of
\* the group and no later db_nodes group follows it.
C4_ThroughputScalingAborts ==
  sweep = "throughput_scaling" =>
    \A j \in JobIds : Failed(j) =>
      /\ j = Len(jobs)
      /\ \A d \in DbIds : d <= jobs[j].db

\* C5: inference_standard starts one deployment per permutation and stops it,
\* also after a failed run: deployment i belongs to permutation i, its events
\* come in the order start(db_i), submit(client_i), terminal(client_i),
\* stop(db_i), each once, stop(db_i) comes before start(db_i+1), and when the
\* sweep returns the starts and the stops both number the permutations.
C5_PerRunDeployment ==
  sweep = "inference_standard" =>
    /\ \A d \in DbIds :
         /\ dbs[d].pi = d
         /\ DbHistoryOk(d)
         /\ d < Len(dbs) => dbs[d].stopped # 0 /\ dbs[d].stopped < dbs[d + 1].started
         /\ dbs[d].stopped # 0 => d \in JobIds
    /\ \A j \in JobIds :
         /\ jobs[j].db = j /\ jobs[j].pi = j
         /\ JobHistoryOk(j)
         /\ Precedes(dbs[j].started, jobs[j].submitted)
         /\ Precedes(jobs[j].ended, dbs[j].stopped)
    /\ pc = "done" =>
         /\ Len(dbs) = NumRuns
         /\ \A d \in DbIds : dbs[d].stops = 1

\* C5 witness: the sweep returned after two or more permutations, the first
\* of which failed, and the first deployment is stopped
C5_Witness ==
  /\ sweep = "inference_standard" /\ pc = "done"
  /\ Len(dbs) >= 2 /\ Failed(1) /\ dbs[1].status = "Stopped"

\* C6: throughput_scaling starts one deployment per element of db_nodes; the
\* deployment of a group runs from before the first to after the last client
\* job of the group, failed jobs included, is stopped once, after every
\* permutation of the group reached a terminal state, and before the next
\* group's deployment is started.
C6_GroupedDeployment ==
  sweep = "throughput_scaling" =>
    /\ \A d \in DbIds :
         /\ dbs[d].gi = d /\ dbs[d].nodes = axes["db_nodes"][d]
         /\ DbHistoryOk(d)
         /\ d < Len(dbs) => dbs[d].stopped # 0 /\ dbs[d].stopped < dbs[d + 1].started
         /\ dbs[d].stopped # 0 =>
              /\ Cardinality(JobsOf(d)) = LenProduct(axes, ProductAxes(sweep))
              /\ \A j \in JobsOf(d) : Precedes(jobs[j].ended, dbs[d].stopped)
    /\ \A j \in JobIds :
         /\ jobs[j].db = jobs[j].gi
         /\ JobHistoryOk(j)
         /\ Precedes(dbs[jobs[j].db].started, jobs[j].submitted)
         /\ jobs[j].status = STATUS_RUNNING => dbs[jobs[j].db].status = STATUS_RUNNING
    /\ pc = "done" =>
         /\ Len(dbs) = Len(axes["db_nodes"])
         /\ \A d \in DbIds : dbs[d].stops = 1

\* C6 witness: two groups of two permutations each have run; the first job of
\* the first group failed and the group went on with its second permutation
C6_Witness ==
  /\ sweep = "throughput_scaling" /\ pc = "done"
  /\ Len(dbs) = 2 /\ Len(jobs) = 4
  /\ Failed(1) /\ jobs[2].db = 1 /\ jobs[3].db = 2

\* the sweeps that run against a separately deployed database
SeparateDb == {"inference_standard", "throughput_scaling", "throughput"}

\* C7: no deployment is stopped while a job bound to it runs, and every use of
\* a deployment (model installation by setup_resnet, submission and run of a
\* client or post-processing job) lies between its start and its stop.
C7_UseWithinLifetime ==
  sweep \in SeparateDb =>
    /\ \A j \in JobIds :
         /\ jobs[j].db \in DbIds
         /\ jobs[j].status = STATUS_RUNNING => dbs[jobs[j].db].status = STATUS_RUNNING
         /\ Precedes(dbs[jobs[j].db].started, jobs[j].submitted)
         /\ dbs[jobs[j].db].stopped # 0 =>
              /\ jobs[j].submitted # 0 /\ jobs[j].ended # 0
              /\ jobs[j].submitted < jobs[j].ended
              /\ jobs[j].ended < dbs[jobs[j].db].stopped
    /\ \A d \in DbIds :
         /\ dbs[d].models > 0 <=> dbs[d].used # 0
         /\ Precedes(dbs[d].started, dbs[d].used)
         /\ dbs[d].used # 0 => Precedes(dbs[d].used, dbs[d].stopped)

\* C7 witness: a deployment into which setup_resnet installed the model has
\* been stopped after the client job bound to it ended
C7_Witness ==
  \E d \in DbIds :
    /\ dbs[d].status = "Stopped" /\ dbs[d].models > 0
    /\ \E j \in JobsOf(d) : jobs[j].status \in TerminalStatuses

\* C8: at most one deployment is running and at most one job is submitted and
\* not yet terminal; a job is submitted, and a deployment started, only after
\* every job submitted before it has reached a terminal state.
C8_StrictlySequential ==
  /\ Cardinality({d \in DbIds : dbs[d].status = STATUS_RUNNING}) <= 1
  /\ Cardinality({d \in DbIds : dbs[d].stopped = 0}) <= 1
  /\ Cardinality({j \in JobIds : jobs[j].status = STATUS_RUNNING}) <= 1
  /\ \A j \in JobIds :
       /\ \A k \in JobIds :
            (jobs[j].submitted # 0 /\ jobs[j].submitted < jobs[k].submitted) =>
               Precedes(jobs[j].ended, jobs[k].submitted)
       /\ \A d \in DbIds :
            (jobs[j].submitted # 0 /\ jobs[j].submitted < dbs[d].started) =>
               Precedes(jobs[j].ended, dbs[d].started)

\* C8 witness: a second deployment runs with its client job running, the
\* first deployment stopped and its job ended
C8_Witness ==
  /\ Len(dbs) >= 2 /\ Len(jobs) >= 2
  /\ dbs[1].status = "Stopped" /\ dbs[Len(dbs)].status = STATUS_RUNNING
  /\ jobs[1].status \in TerminalStatuses
  /\ jobs[Len(jobs)].status = STATUS_RUNNING

\* the value lists of every swept axis, outermost loop first
SweepPools == [i \in 1..Len(SweptAxes(sweep)) |-> axes[SweptAxes(sweep)[i]]]

RECURSIVE Stride(_, _)
\* number of tuples that share their first i components
Stride(pools, i) ==
  IF i >= Len(pools) THEN 1 ELSE Len(pools[i + 1]) * Stride(pools, i + 1)

\* the k-th tuple of the cartesian product in lexicographic order of positions
LexTuple(pools, k) ==
  [i \in 1..Len(pools) |->
     pools[i][(((k - 1) \div Stride(pools, i)) % Len(pools[i])) + 1]]

\* the parameter values of run j: the group's db_nodes value, then its tuple
RunSpec(j) ==
  IF sweep = "throughput_scaling" THEN <<dbs[jobs[j].db].nodes>> \o jobs[j].perm
  ELSE jobs[j].perm

\* C9: in the sweeps of driver.py the list perms is the cartesian product of
\* the axis lists in lexicographic order (first axis slowest, duplicates kept),
\* the k-th run created and launched is the k-th tuple of the product of all
\* swept axes, and a sweep that returned has launched one run per tuple.
C9_LexicographicOrder ==
  sweep \in {"inference_standard", "inference_colocated", "throughput_scaling"} =>
    /\ \A k \in DOMAIN perms : perms[k] = LexTuple(Pools(sweep, axes), k)
    /\ perms # <<>> => Len(perms) = LenProduct(axes, ProductAxes(sweep))
    /\ \A j \in JobIds :
         /\ j <= NumRuns
         /\ RunSpec(j) = LexTuple(SweepPools, j)
         /\ j < Len(jobs) => jobs[j].submitted # 0 /\ jobs[j].submitted < jobs[j + 1].created
    /\ pc = "done" =>
         /\ Len(jobs) = NumRuns
         /\ \A j \in JobIds : jobs[j].submitted # 0

\* C9 witness: a standard sweep over two two-valued axes, one of them with a
\* repeated value, has returned after its four runs
C9_Witness ==
  /\ sweep = "inference_standard" /\ pc = "done"
  /\ axes["client_nodes"] = <<2, 1>> /\ axes["batch_size"] = <<1, 1>>
  /\ Len(jobs) = 4

\* C10: with an axis that has no candidate value the sweep submits nothing (no
\* deployment, no allocation, no job) and does not return normally.
C10_EmptyAxisRejected ==
  AnyAxisEmpty =>
    /\ dbs = <<>> /\ jobs = <<>>
    /\ allocation.state = "none"
    /\ pc = "done" => result # "returned"

\* the runs, in listing order, whose per-run CSV can be read
ReadableRuns ==
  LET CanRead(k) == agg.dir[k].csv.readable IN SelectSeq(agg.runs, CanRead)

\* C11: a call of process_scaling_results over a directory in which at least
\* one run has a readable per-run CSV returns normally, whichever runs failed
\* in extraction or in reading, and the combined table it writes is the frames
\* of exactly the runs with a readable per-run CSV, in listing order.
C11_PartialFailureTolerated ==
  (agg.pc = "done" /\ ReadableRuns # <<>>) =>
    /\ agg.result = "returned" /\ agg.written
    /\ agg.combined = [n \in 1..Len(ReadableRuns) |-> agg.dir[ReadableRuns[n]].csv.rows]

\* C11 witness: a call returned over three runs, the first failing in
\* extraction, the second unreadable, the third aggregated
C11_Witness ==
  /\ agg.pc = "done" /\ agg.result = "returned" /\ Len(agg.runs) = 3
  /\ \E w \in DOMAIN agg.warnings : agg.warnings[w] = [run |-> agg.runs[1], loop |-> "create"]
  /\ \E w \in DOMAIN agg.warnings : agg.warnings[w] = [run |-> agg.runs[2], loop |-> "collect"]
  /\ agg.combined = <<agg.runs[3]>>

\* C12: a call of process_scaling_results ends in an exception exactly when no
\* run has a readable per-run CSV (a directory without run directories
\* included); it then has logged "Could not preprocess results" once, raised
\* again and written no combined CSV; with a readable run it logs no error.
C12_FatalIffNothingAggregated ==
  agg.pc = "done" =>
    /\ agg.result # "returned" <=> ReadableRuns = <<>>
    /\ ReadableRuns = <<>> =>
         agg.result = "ValueError" /\ agg.errors = 1 /\ ~agg.written
    /\ ReadableRuns # <<>> => agg.errors = 0

\* C12 witness: a call over two or more run directories, none of them with a
\* readable per-run CSV, has raised
C12_Witness ==
  /\ agg.pc = "done" /\ agg.result = "ValueError"
  /\ Len(agg.runs) >= 2 /\ Len(agg.warnings) >= 2

\* C13: in one call of process_scaling_results no run contributes twice: the
\* frames collected, and the rows of the combined CSV the call writes, belong
\* to pairwise different runs.
C13_EachRunOnce ==
  /\ \A m \in DOMAIN agg.dataframes, n \in DOMAIN agg.dataframes :
       m # n => agg.dataframes[m] # agg.dataframes[n]
  /\ agg.written =>
       \A m \in DOMAIN agg.combined, n \in DOMAIN agg.combined :
         m # n => agg.combined[m] # agg.combined[n]

\* C13 witness: a call has written a combined CSV of three runs
C13_Witness ==
  agg.pc = "done" /\ agg.written /\ Len(agg.combined) = 3

\* C14: a second call of process_scaling_results with overwrite=False over a
\* directory nothing else has changed leaves every per-run CSV as the previous
\* call left it, content and time of writing: no existing per-run CSV is
\* extracted again.
C14_ExtractionIdempotent ==
  (agg.pc = "done" /\ agg.calls >= 2 /\ ~agg.overwrite) =>
    \A k \in DOMAIN agg.dir : agg.dir[k].csv = agg.before[k].csv

\* C14 witness: the second call, with overwrite=False, is over; a run whose
\* raw files can be extracted has the per-run CSV the first call wrote
C14_Witness ==
  /\ agg.pc = "done" /\ agg.calls = 2 /\ ~agg.overwrite
  /\ \E n \in DOMAIN agg.runs :
       /\ agg.dir[agg.runs[n]].raw = "ok"
       /\ agg.dir[agg.runs[n]].csv.readable /\ agg.dir[agg.runs[n]].csv.mtime > 0

SessionIds == DOMAIN sessions

\* C15: two sessions created in one experiment directory for the same
\* parameter values have different names.
C15_NamesNeverCollide ==
  \A m \in SessionIds, n \in SessionIds :
    (m # n /\ sessions[m].spec = sessions[n].spec) =>
      sessions[m].name # sessions[n].name

\* the part of a session's name that its parameters determine
DeterministicPart(n) ==
  IF sessions[n].kind = "throughput" THEN sessions[n].name
  ELSE SubSeq(sessions[n].name, 1, Len(sessions[n].name) - 1)

\* C16: two sessions of one sweep whose parameter tuples differ in a swept
\* axis (batch_size and pin_app_cpus included) differ in the deterministic part
\* of their names.
C16_NameEmbedsEverySweptAxis ==
  \A m \in SessionIds, n \in SessionIds :
    (sessions[m].kind = sessions[n].kind /\ sessions[m].spec # sessions[n].spec) =>
      DeterministicPart(m) # DeterministicPart(n)

\* C17: in the sweeps of driver.py every run has its run.cfg written into its
\* directory once, before its client job is submitted, so that a run whose job
\* fails afterwards has its record.
C17_ConfigBeforeSubmit ==
  sweep \in {"inference_standard", "inference_colocated", "throughput_scaling"} =>
    \A j \in JobIds :
      /\ jobs[j].cfg /\ jobs[j].cfgs = 1 /\ jobs[j].cfg_written # 0
      /\ Precedes(jobs[j].cfg_written, jobs[j].submitted)

\* C17 witness: a colocated run whose job failed after its run.cfg was written
C17_Witness ==
  /\ sweep = "inference_colocated"
  /\ \E j \in JobIds :
       Failed(j) /\ jobs[j].cfg /\ jobs[j].cfg_written < jobs[j].submitted

\* C18: the wait for a submitted job has a ceiling: while a job is running the
\* driver always has a step of its own to take (give the run up as failed,
\* stop the deployment, go on), so a job that never reaches a terminal state
\* does not hold the sweep for ever.
C18_WaitHasCeiling ==
  (\E j \in JobIds : jobs[j].status = STATUS_RUNNING) => ENABLED Driver

\* the database of db_nodes group g failed to start
DeployFailed(g) == \E d \in DbIds : dbs[d].gi = g /\ dbs[d].status = STATUS_FAILED

\* C19: in throughput_scaling a database that fails to start costs its own
\* db_nodes group only: no client job of that group is submitted, and when the
\* sweep function is left every other group has had its database started and
\* all its permutations run.
C19_DeploymentFailureScoped ==
  (sweep = "throughput_scaling" /\ pc = "done") =>
    \A g \in 1..Len(axes["db_nodes"]) :
      IF DeployFailed(g)
      THEN \A j \in JobIds : jobs[j].gi # g
      ELSE /\ \E d \in DbIds : dbs[d].gi = g /\ dbs[d].started # 0
           /\ Cardinality({j \in JobIds : jobs[j].gi = g /\ jobs[j].submitted # 0})
                = LenProduct(axes, ProductAxes(sweep))

\* C20: throughput() of cpp-throughput/driver.py permutes clients_per_node,
\* db_nodes and client_nodes into 3-tuples, each of them one test, and when no
\* test failed the number of tests run is
\* len(client_nodes) * len(clients_per_node) * len(db_nodes).
C20_ThreeAxesPermuted ==
  (sweep = "throughput" /\ pc = "done" /\ result = "returned" /\ errors = <<>>) =>
    /\ \A k \in DOMAIN perms : Len(perms[k]) = 3
    /\ Cardinality(ClientIds) =
         LenProduct(axes, <<"client_nodes", "clients_per_node", "db_nodes">>)

\* C21: in the sweeps with a separate database a client job is created and
\* submitted only while the deployment it is bound to is Running: the
\* deployment was running before the submission and was not stopped before it.
C21_SubmittedToRunningDb ==
  sweep \in SeparateDb =>
    \A j \in ClientIds :
      /\ jobs[j].db \in DbIds
      /\ jobs[j].status = STATUS_NEW => dbs[jobs[j].db].status = STATUS_RUNNING
      /\ jobs[j].submitted # 0 =>
           /\ dbs[jobs[j].db].started # 0
           /\ dbs[jobs[j].db].started < jobs[j].submitted
           /\ dbs[jobs[j].db].stopped = 0 \/ jobs[j].submitted < dbs[jobs[j].db].stopped

\* C21 witness: in throughput() of cpp-throughput a client job runs against
\* the running deployment of its permutation, the second of the sweep
C21_Witness ==
  /\ sweep = "throughput"
  /\ \E j \in ClientIds :
       /\ jobs[j].pi = 2 /\ jobs[j].status = STATUS_RUNNING
       /\ dbs[jobs[j].db].status = STATUS_RUNNING /\ dbs[jobs[j].db].pi = 2

\* C23: in inference_standard, whatever device and num_devices are (the
\* defaults GPU and 1 included), setup_resnet has put at least one model and
\* script into the running database of a permutation, after the database was
\* started, before the permutation's client job is submitted.
C23_DriverSetsModel ==
  sweep = "inference_standard" =>
    \A j \in JobIds :
      jobs[j].submitted # 0 =>
        /\ dbs[jobs[j].db].models >= 1
        /\ dbs[jobs[j].db].used # 0
        /\ dbs[jobs[j].db].started < dbs[jobs[j].db].used
        /\ dbs[jobs[j].db].used < jobs[j].submitted

\* the data locations whose per-run CSV can be read, in the order appended
ReadableLocations ==
  SelectSeq(data_locations, Readable)

\* C24: when throughput() of cpp-throughput/driver.py has returned and the
\* per-run CSV of at least one completed run can be read, the final CSV holds
\* the results of exactly the completed runs with a readable per-run CSV; a
\* run whose post-processing failed is left out without costing the others.
C24_CppAggregationTolerant ==
  (sweep = "throughput" /\ pc = "done" /\ ReadableLocations # <<>>) =>
    /\ final_csv.written
    /\ final_csv.rows = [i \in 1..Len(ReadableLocations) |-> ReadableLocations[i].run]

\* C25: in throughput() of cpp-throughput/driver.py no two data locations
\* share a run name (and so a directory), also when an axis list repeats a
\* value, and no per-run CSV enters the final CSV twice.
C25_CppRowsUniquelyKeyed ==
  sweep = "throughput" =>
    /\ \A m \in DOMAIN data_locations, n \in DOMAIN data_locations :
         m # n => cpp_session_name(data_locations[m].run) # cpp_session_name(data_locations[n].run)
    /\ \A m \in DOMAIN final_csv.rows, n \in DOMAIN final_csv.rows :
         m # n => final_csv.rows[m] # final_csv.rows[n]

\* C27: the section "attributes" of the run.cfg of a driver.py run holds the
\* run's value of every swept axis (for inference_colocated, whose database
\* shares the client nodes, pin_app_cpus as an integer and nodes as
\* database_nodes too), and client_total = client_per_node * client_nodes.
C27_AttributesRecordAxes ==
  sweep \in {"inference_standard", "inference_colocated", "throughput_scaling"} =>
    \A j \in JobIds :
      LET a == jobs[j].attributes
          rs == RunSpec(j)
      IN /\ a.client_total = a.client_per_node * a.client_nodes
         /\ a.client_per_node = Swept(sweep, rs, "clients_per_node")
         /\ sweep = "inference_standard" =>
              /\ a.client_nodes = Swept(sweep, rs, "client_nodes")
              /\ a.database_nodes = Swept(sweep, rs, "db_nodes")
              /\ a.database_cpus = Swept(sweep, rs, "db_cpus")
              /\ a.database_threads_per_queue = Swept(sweep, rs, "db_tpq")
              /\ a.batch_size = Swept(sweep, rs, "batch_size")
         /\ sweep = "inference_colocated" =>
              /\ a.client_nodes = Swept(sweep, rs, "nodes")
              /\ a.database_nodes = Swept(sweep, rs, "nodes")
              /\ a.database_cpus = Swept(sweep, rs, "db_cpus")
              /\ a.database_threads_per_queue = Swept(sweep, rs, "db_tpq")
              /\ a.batch_size = Swept(sweep, rs, "batch_size")
              /\ a.pin_app_cpus = Swept(sweep, rs, "pin_app_cpus")
         /\ sweep = "throughput_scaling" =>
              /\ a.client_nodes = Swept(sweep, rs, "client_nodes")
              /\ a.database_nodes = Swept(sweep, rs, "db_nodes")
              /\ a.tensor_bytes = Swept(sweep, rs, "tensor_bytes")

\* C27 witness: the fourth run of a throughput_scaling sweep over two database
\* sizes and two tensor sizes has its run.cfg
C27_Witness ==
  /\ sweep = "throughput_scaling" /\ Len(jobs) = 4 /\ jobs[4].cfg
  /\ axes["db_nodes"] = <<1, 2>> /\ axes["tensor_bytes"] = <<2, 1>>
  /\ jobs[4].attributes.database_nodes = 2 /\ jobs[4].attributes.tensor_bytes = 1

\* C29: throughput() of cpp-throughput/driver.py holds its allocation while
\* it runs and has released it once when it returns, however the loop over
\* the permutations ended (all run, or a failed client job) and whether or
\* not the final aggregation wrote its CSV.
C29_AllocationReleasedOnce ==
  (sweep = "throughput" /\ allocation.state # "none") =>
    /\ pc # "done" => allocation.state = "held" /\ allocation.releases = 0
    /\ pc = "done" => allocation.state = "released" /\ allocation.releases = 1

\* C29 witness: the sweep returned with the allocation released after its
\* second client job failed and the aggregation wrote no CSV
C29_Witness ==
  /\ sweep = "throughput" /\ pc = "done" /\ allocation.state = "released"
  /\ Len(data_locations) = 1 /\ \E j \in ClientIds : Failed(j) /\ jobs[j].pi = 2
  /\ ~final_csv.written

\* the runs whose raw files cannot be extracted
BadRuns == {n \in DOMAIN agg.runs : agg.dir[agg.runs[n]].raw = "bad"}

\* C26: a first call of process_scaling_results over N run directories without
\* per-run CSVs, K of them with raw files that cannot be extracted and at least
\* one that can, returns normally with a combined CSV of N - K runs and has
\* logged K warnings, one for each run skipped.
C26_OneWarningPerSkippedRun ==
  ( /\ agg.pc = "done" /\ agg.calls = 1
    /\ \A n \in DOMAIN agg.runs : ~agg.before[agg.runs[n]].csv.exists
    /\ Cardinality(BadRuns) < Len(agg.runs) ) =>
      /\ agg.result = "returned"
      /\ Len(agg.combined) = Len(agg.runs) - Cardinality(BadRuns)
      /\ Len(agg.warnings) = Cardinality(BadRuns)

\* ---- throughput-plotter.py ----
\* the tables made so far: <<DB_node, size, table>>
Extracted ==
  {<<DB_nodes[plot.di], sz, plot.dfs[sz]>> : sz \in DOMAIN plot.dfs} \cup
  UNION {{<<dbn, sz, plot.df_dbs[dbn][sz]>> : sz \in DOMAIN plot.df_dbs[dbn]} :
         dbn \in DOMAIN plot.df_dbs}

\* the number after the letters key in a run directory's name
Part(name, key) == name[CHOOSE i \in DOMAIN name : name[i][1] = key][2]

\* the lines labelled loop_time of the rank files of run directory d, in the
\* order the files were listed in
RECURSIVE TimedLines(_, _)
TimedLines(d, files) ==
  IF files = <<>> THEN <<>>
  ELSE (IF Head(files) \in RankFiles
        THEN SelectSeq(d.files[Head(files)].lines,
                       LAMBDA ln : Len(ln) = 3 /\ ln[2] = "loop_time")
        ELSE <<>>) \o TimedLines(d, Tail(files))

\* C22: every throughput sample is payload bytes times iteration count over
\* the elapsed time of its line, divided by 1e9 (GB/s): a run of 1024000
\* bytes and 100 iterations with an elapsed time of 1 second gives
\* 102,400,000 bytes per second, 0.1024 GB/s
C22_ThroughputDerivation ==
  \A x \in Extracted :
    LET d == plot.dirs[x[3].path]
        ls == TimedLines(d, x[3].files)
        payload_bytes == Part(d.name, "TB")
        iteration_count == Part(d.name, "ITER")
    IN /\ Len(x[3].loop_time) = Len(ls)
       /\ \A n \in DOMAIN ls :
            LET bytes_per_second == RatMul(x[3].loop_time[n], Rat(e9, 1))
            IN /\ RatMul(bytes_per_second, float(ls[n][3])) =
                    Rat(payload_bytes * iteration_count, 1)
               /\ (payload_bytes = 1024000 /\ iteration_count = 100 /\ ls[n][3] = "1.0")
                    => /\ bytes_per_second = Rat(102400000, 1)
                       /\ x[3].loop_time[n] = Rat(1024, 10000)

C22_Witness ==
  /\ plot.pc = "done"
  /\ \E x \in Extracted :
       /\ Part(plot.dirs[x[3].path].name, "TB") = 1024000
       /\ \E n \in DOMAIN x[3].loop_time :
            /\ TimedLines(plot.dirs[x[3].path], x[3].files)[n][3] = "1.0"
            /\ x[3].loop_time[n] = [num |-> 64, den |-> 625]

\* every line of every rank file of d has its three fields
WellFormed(d) ==
  \A f \in RankFiles : \A n \in DOMAIN d.files[f].lines : Len(d.files[f].lines[n]) = 3

\* number of lines of file f of d with the given label
Labelled(d, f, label) ==
  Cardinality({n \in DOMAIN d.files[f].lines :
                 /\ Len(d.files[f].lines[n]) = 3
                 /\ d.files[f].lines[n][2] = label})

\* C28: a table holds exactly one sample per line labelled loop_time of the
\* run's rank files, lines with another label add nothing to it, and a run
\* is lost (the warning printed instead of a table made) only if no directory
\* matched or one of its lines lacks a field, never for a line with another
\* label
C28_OnlyRecognizedLabels ==
  /\ \A x \in Extracted :
       Len(x[3].loop_time) =
         Labelled(plot.dirs[x[3].path], "rank_0_timing.csv", "loop_time")
         + Labelled(plot.dirs[x[3].path], "rank_1_timing.csv", "loop_time")
  /\ \A w \in DOMAIN plot.warnings :
       LET globbed == glob(plot.dirs, path_root(plot.warnings[w][1], plot.warnings[w][2]))
       IN globbed # <<>> => ~WellFormed(plot.dirs[globbed[1]])

C28_Witness ==
  /\ plot.pc = "done"
  /\ \E x \in Extracted :
       /\ Len(x[3].loop_time) = 2
       /\ \E f \in RankFiles :
            /\ Labelled(plot.dirs[x[3].path], f, "put_tensor") > 0
            /\ Labelled(plot.dirs[x[3].path], f, "loop_time") > 0

\* C30: once the plotter has run, a run directory named by
\* create_throughput_session for parameters the plotter looks up, its rank
\* files well formed, has its table among the extracted ones
C30_LauncherNamesMatched ==
  plot.pc = "done" =>
    \A i \in DOMAIN plot.dirs, a \in DOMAIN DB_nodes, b \in DOMAIN sizes :
      ( /\ plot.dirs[i].name = launched_name(nnodes, threads, DB_nodes[a], sizes[b])
        /\ WellFormed(plot.dirs[i]) )
        => \E x \in Extracted : x[1] = DB_nodes[a] /\ x[2] = sizes[b] /\ x[3].path = i

====
